---- MODULE Spec2Model ----
(***************************************************************************)
(* Model of OutQueueManager (src/js/out_queue.js): the outbound event      *)
(* queue of the Snowplow JavaScript tracker.  One queue instance, its      *)
(* localStorage record, the XMLHttpRequest / Image objects it has created  *)
(* and the callbacks the browser may run on them.                          *)
(***************************************************************************)
EXTENDS Integers, Sequences, FiniteSets, Bags, TLC

\* ------------------------------------------------------------------ bounds
MaxEvents == 1       \* enqueueRequest calls that are accepted
MaxReqs == 2         \* request objects (xhr / image) alive at one time
MaxRestarts == 1     \* page reloads (fresh OutQueueManager instances)
MaxLen == 5          \* queue length drawn for the batch-selection check

\* ------------------------------------------------------- values and inputs
NaN == 0 - 1                     \* result of adding undefined to a number
Undefined == 0 - 1               \* x.memorySize of a value without that field
Throw == 0 - 2                   \* chooseHowManyToExecute raised a TypeError
DefaultMaxBytes == 40000         \* var maxBytes = 40000
EventSizes == {25000, 40000}       \* JSON length of the cleaned request
RequestedBufferSizes == {1, 3}
NoRecord == <<"none">>           \* localStorage.getItem returns null
Url == "collector"
NoUrl == "undefined"

VARIABLES
    usePost,             \* effective usePost (after the CORS downgrade)
    useLocalStorage,
    lsAccessible,        \* localStorageAccessible()
    bufferSize,          \* after the clamp of line 70
    maxBytes,
    maxEvents,           \* events the page tracks in the run
    outQueue,
    executingQueue,
    configCollectorUrl,
    localStorage,        \* the record stored under queueName
    reqs,                \* bag of the xhr / image objects with a pending callback
    last,                \* the operation that ran last and what it reported
    nextUid,             \* history: identity of the next pushed entry
    nextEv,              \* history: identity of the next enqueued event
    enqLog,              \* history: events accepted by enqueueRequest
    accepted,            \* history: uids carried by an accepted send
    hist,                \* history: fresh (nothing was stored at Init),
                         \* writesOk (every write so far succeeded),
                         \* rejected (entries of the batch rejected last,
                         \* no send accepted since; kept if track)
    restarts,
    batchQ,              \* input of the batch-selection check
    batchN               \* its result

vars == <<usePost, useLocalStorage, lsAccessible, bufferSize, maxBytes,
          maxEvents, outQueue, executingQueue, configCollectorUrl, localStorage, reqs,
          last, nextUid, nextEv, enqLog, accepted, hist, restarts,
          batchQ, batchN>>

config == <<usePost, useLocalStorage, lsAccessible, bufferSize, maxBytes,
           maxEvents>>
batchVars == <<batchQ, batchN>>

\* ------------------------------------------------------------ PayloadCodec
\* An entry is a JSON value; uid is history only (which push created it).
Entry(kind, data, size, uid) ==
    [kind |-> kind, data |-> data, memorySize |-> size, uid |-> uid]

getBody(ev, uid) == Entry("body", ev.id, ev.size, uid)

getQuerystring(ev, uid) == Entry("string", ev.id, Undefined, uid)

\* typeof of a queue element
typeOf(x) ==
    CASE x.kind = "string" -> "string"
      [] x.kind \in {"body", "object", "null"} -> "object"
      [] x.kind = "number" -> "number"
      [] OTHER -> "boolean"

StripUid(q) ==
    [i \in 1..Len(q) |-> [kind |-> q[i].kind, data |-> q[i].data,
                          memorySize |-> q[i].memorySize]]

Uids(q) == {q[i].uid : i \in 1..Len(q)}

\* ------------------------------------------------------------ DurableStore
\* json2.stringify(outQueue): the stored text is the array of the entries
stringify(q) == <<"array", q>>

\* lines 75-87: parse the record, anything but an array gives the empty queue
loadQueue(useLS, accessible, record) ==
    IF useLS /\ accessible /\ record[1] = "array" THEN record[2] ELSE <<>>

\* helpers.attemptWriteLocalStorage(queueName, value): the new record and
\* the boolean it returns; ok is whether the store takes the write
attemptWrite(record, q, ok) ==
    IF lsAccessible /\ ok THEN [record |-> stringify(q), saved |-> TRUE]
    ELSE [record |-> record, saved |-> FALSE]

\* ----------------------------------------------------------------- Batcher
jsAdd(byteCount, size) ==
    IF byteCount = NaN \/ size = Undefined THEN NaN ELSE byteCount + size

\* mutant: the budget test of line 213 with > for >=
RECURSIVE chooseLoopGt(_, _, _)
chooseLoopGt(q, numberToSend, byteCount) ==
    IF numberToSend >= Len(q) THEN numberToSend
    ELSE IF q[numberToSend + 1].kind = "null" THEN Throw
    ELSE LET bc == jsAdd(byteCount, q[numberToSend + 1].memorySize) IN
         IF bc # NaN /\ bc > maxBytes THEN numberToSend
         ELSE chooseLoopGt(q, numberToSend + 1, bc)

\* lines 209-219: the loop of chooseHowManyToExecute
RECURSIVE chooseLoop(_, _, _)
chooseLoop(q, numberToSend, byteCount) ==
    IF numberToSend >= Len(q) THEN numberToSend
    ELSE IF q[numberToSend + 1].kind = "null" THEN Throw
    ELSE LET bc == jsAdd(byteCount, q[numberToSend + 1].memorySize) IN
         IF bc # NaN /\ bc >= maxBytes THEN numberToSend
         ELSE chooseLoop(q, numberToSend + 1, bc)

chooseHowManyToExecute(q) == chooseLoop(q, 0, 0)

\* ------------------------------------------------------------- DrainEngine
RECURSIVE scrub(_)
scrub(q) ==
    IF Len(q) > 0 /\ typeOf(q[1]) # "string" /\ typeOf(q[1]) # "object"
    THEN scrub(Tail(q)) ELSE q

Request(kind, carried, n, state, timer) ==
    [kind |-> kind, carried |-> carried, numberToSend |-> n,
     state |-> state, timer |-> timer]

\* The xhr object built by one run of executeQueue in POST mode
xhrRequest(q) ==
    LET n == chooseHowManyToExecute(q) IN
    IF n = Throw THEN Request("xhr", <<>>, 0, "unsent", TRUE)
    ELSE Request("xhr", [i \in 1..n |-> q[i].uid], n,
                 IF n > 0 THEN "inflight" ELSE "unsent", TRUE)

imageRequest(q) == Request("image", <<q[1].uid>>, 1, "inflight", FALSE)

\* mutant: executingQueue = true (line 192) moved above the url test
executeQueueFlagFirst(q0, exec0, url) ==
    LET q == scrub(q0) IN
    IF Len(q) < 1
    THEN [q |-> q, exec |-> FALSE, req |-> <<>>, threw |-> "no"]
    ELSE IF url = NoUrl
    THEN [q |-> q, exec |-> TRUE, req |-> <<>>, threw |-> "config"]
    ELSE IF usePost
    THEN [q |-> q, exec |-> TRUE, req |-> <<xhrRequest(q)>>,
          threw |-> IF chooseHowManyToExecute(q) = Throw THEN "type" ELSE "no"]
    ELSE [q |-> q, exec |-> TRUE, req |-> <<imageRequest(q)>>, threw |-> "no"]

\* executeQueue() run on queue q0 with flag exec0 and collector url:
\* the queue and flag it leaves, the request it created, what it threw
executeQueue(q0, exec0, url) ==
    LET q == scrub(q0) IN
    IF Len(q) < 1
    THEN [q |-> q, exec |-> FALSE, req |-> <<>>, threw |-> "no"]
    ELSE IF url = NoUrl
    THEN [q |-> q, exec |-> exec0, req |-> <<>>, threw |-> "config"]
    ELSE IF usePost
    THEN [q |-> q, exec |-> TRUE, req |-> <<xhrRequest(q)>>,
          threw |-> IF chooseHowManyToExecute(q) = Throw THEN "type" ELSE "no"]
    ELSE [q |-> q, exec |-> TRUE, req |-> <<imageRequest(q)>>, threw |-> "no"]

\* the requests whose send is outstanding, and how many there are
InFlight == {r \in BagToSet(reqs) : r.state = "inflight"}

NumInFlight == BagCardinality([r \in InFlight |-> CopiesIn(r, reqs)])

\* the request objects after executeQueue created req (<<>> if none)
AddReq(b, req) == IF req = <<>> THEN b ELSE b (+) SetToBag({req[1]})

RemoveReq(b, r) == b (-) SetToBag({r})

\* request r has become r2; a request object is forgotten once no callback
\* of it can run any more
Settle(b, r, r2) ==
    IF r2.state # "inflight" /\ ~r2.timer THEN RemoveReq(b, r)
    ELSE RemoveReq(b, r) (+) SetToBag({r2})

\* mutant: the loop of lines 227-229 stops one shift early
RECURSIVE shiftNLess(_, _)
shiftNLess(q, n) ==
    IF n <= 1 \/ Len(q) = 0 THEN q ELSE shiftNLess(Tail(q), n - 1)

\* lines 227-229 (and line 258 with n = 1): n shifts of the queue
RECURSIVE shiftN(_, _)
shiftN(q, n) == IF n = 0 \/ Len(q) = 0 THEN q ELSE shiftN(Tail(q), n - 1)

NoRun(q, exec) == [q |-> q, exec |-> exec, req |-> <<>>, threw |-> "no"]

\* the operation that ran last, with its inputs and outputs that are not
\* part of the state: the warning, the status and the entries of the request
\* whose callback ran, the encoded size of the event handed to enqueueRequest,
\* and what the operation threw to its caller ("no" if it returned)
Last(op, warned, status, carried, size) ==
    [op |-> op, warned |-> warned, status |-> status, carried |-> carried,
     size |-> size, threw |-> "no"]

\* the same, when the operation ran executeQueue with result r
LastRun(op, status, carried, size, r) ==
    [Last(op, FALSE, status, carried, size) EXCEPT !.threw = r.threw]

Constructed == Last("construct", FALSE, 0, <<>>, 0)

\* ------------------------------------------------------------------- Init
Valid(post, uid) ==
    IF post THEN Entry("body", 0, 25000, uid)
    ELSE Entry("string", 0, Undefined, uid)

\* records an earlier page may have left under queueName
InitStores(post) ==
    {NoRecord,
     stringify(<<Entry("number", 0, Undefined, 1), Valid(post, 2)>>)}

\* line 70
clampBufferSize(accessible, useLS, post, requested) ==
    IF accessible /\ useLS /\ post /\ requested # 0 THEN requested ELSE 1

NotRun == 0 - 3

Init ==
    /\ usePost \in BOOLEAN
    /\ useLocalStorage \in BOOLEAN
    /\ lsAccessible \in (IF useLocalStorage THEN BOOLEAN ELSE {TRUE})
    /\ \E requested \in RequestedBufferSizes :
          bufferSize = clampBufferSize(lsAccessible, useLocalStorage,
                                       usePost, requested)
    /\ maxBytes = DefaultMaxBytes
    /\ maxEvents = MaxEvents
    /\ localStorage \in
          (IF useLocalStorage /\ lsAccessible THEN InitStores(usePost)
           ELSE {NoRecord})
    /\ outQueue = loadQueue(useLocalStorage, lsAccessible, localStorage)
    /\ executingQueue = FALSE
    /\ configCollectorUrl = NoUrl
    /\ reqs = EmptyBag
    /\ last = Constructed
    /\ nextUid = 3
    /\ nextEv = 1
    /\ enqLog = <<>>
    /\ accepted = {}
    /\ hist = [fresh |-> localStorage = NoRecord, writesOk |-> TRUE,
              track |-> FALSE, rejected |-> <<>>]
    /\ restarts = 0
    /\ batchQ = <<>>
    /\ batchN = NotRun

\* ---------------------------------------------------------------- actions
\* mutant: the size test of line 150 with > for >=
tooLongGt(size) == size > maxBytes

\* line 150
tooLong(size) == size >= maxBytes

\* mutant: the entries are put in front of the queue
pushedFront(q, ev, uid) ==
    IF usePost
    THEN <<getBody(ev, uid + 1)>> \o (<<getBody(ev, uid)>> \o q)
    ELSE <<getQuerystring(ev, uid + 1)>> \o (<<getQuerystring(ev, uid)>> \o q)

\* lines 148-159: the queue after the pushes of an accepted enqueue
pushed(q, ev, uid) ==
    IF usePost
    THEN (q \o <<getBody(ev, uid)>>) \o <<getBody(ev, uid + 1)>>
    ELSE (q \o <<getQuerystring(ev, uid)>>) \o <<getQuerystring(ev, uid + 1)>>

\* mutant: the write made before the last push or shift
saveEarly(record, q, ok) ==
    IF useLocalStorage
    THEN attemptWrite(record, SubSeq(q, 1, Len(q) - 1), ok)
    ELSE [record |-> record, saved |-> FALSE]

\* lines 162-164
save(record, q, ok) ==
    IF useLocalStorage THEN attemptWrite(record, q, ok)
    ELSE [record |-> record, saved |-> FALSE]

\* mutant: the test of line 166 with && for ||
shouldExecuteAnd(exec, saved, len) ==
    ~exec /\ (~saved /\ len >= bufferSize)

\* line 166
shouldExecute(exec, saved, len) ==
    ~exec /\ (~saved \/ len >= bufferSize)

\* lines 146-169
enqueueRequest(ev, ok) ==
    IF usePost /\ tooLong(ev.size)
    THEN /\ last' = Last("enqueue", TRUE, 0, <<>>, ev.size)
         /\ UNCHANGED <<config, outQueue, executingQueue, configCollectorUrl,
                        localStorage, reqs, nextUid, nextEv, enqLog,
                        accepted, hist, restarts, batchVars>>
    ELSE /\ nextEv <= maxEvents
         /\ BagCardinality(reqs) < MaxReqs
         /\ LET q1 == pushed(outQueue, ev, nextUid)
                w == save(localStorage, q1, ok)
                r == IF shouldExecute(executingQueue, w.saved, Len(q1))
                     THEN executeQueue(q1, executingQueue, Url)
                     ELSE NoRun(q1, executingQueue)
            IN /\ outQueue' = r.q
               /\ executingQueue' = r.exec
               /\ reqs' = AddReq(reqs, r.req)
               /\ localStorage' = w.record
               /\ hist' = [hist EXCEPT !.writesOk =
                              @ /\ (useLocalStorage => w.saved)]
               /\ last' = LastRun("enqueue", 0, <<>>, ev.size, r)
         /\ configCollectorUrl' = Url
         /\ nextUid' = nextUid + 2
         /\ nextEv' = nextEv + 1
         /\ enqLog' = Append(enqLog, ev)
         /\ UNCHANGED <<config, accepted, restarts, batchVars>>

Enqueue ==
    \E size \in (IF usePost THEN EventSizes ELSE {25000}),
       ok \in (IF useLocalStorage /\ lsAccessible THEN BOOLEAN ELSE {FALSE}) :
        enqueueRequest([id |-> nextEv, size |-> size], ok)

\* the public executeQueue of lines 274-277, called by the page
PublicExecuteQueue ==
    /\ BagCardinality(reqs) < MaxReqs
    /\ LET r == executeQueue(outQueue, executingQueue, configCollectorUrl)
       IN /\ outQueue' = r.q
          /\ executingQueue' = r.exec
          /\ reqs' = AddReq(reqs, r.req)
          /\ last' = LastRun("executeQueue", 0, <<>>, 0, r)
    /\ UNCHANGED <<config, configCollectorUrl, localStorage, nextUid, nextEv,
                   enqLog, accepted, hist, restarts, batchVars>>

\* mutant: the flusher registered in every mode
flusherRegisteredAlways == TRUE

\* line 92: whether the constructor registered a flusher
flusherRegistered == usePost /\ bufferSize > 1

\* mutant: the flusher without the test of line 94
flusherRunsAlways(exec) == TRUE

\* line 94
flusherRuns(exec) == ~exec

\* lines 92-98: the flusher registered in mutSnowplowState.bufferFlushers
BufferFlusher ==
    /\ flusherRegistered
    /\ BagCardinality(reqs) < MaxReqs
    /\ LET r == IF flusherRuns(executingQueue)
                THEN executeQueue(outQueue, executingQueue, configCollectorUrl)
                ELSE NoRun(outQueue, executingQueue)
       IN /\ outQueue' = r.q
          /\ executingQueue' = r.exec
          /\ reqs' = AddReq(reqs, r.req)
          /\ last' = LastRun("flush", 0, <<>>, 0, r)
    /\ UNCHANGED <<config, configCollectorUrl, localStorage, nextUid, nextEv,
                   enqLog, accepted, hist, restarts, batchVars>>

\* the page runs every function of mutSnowplowState.bufferFlushers: the
\* flusher of this queue if line 92 registered it, nothing of this queue
\* otherwise
FlushSignal ==
    \/ BufferFlusher
    \/ /\ ~flusherRegistered
       /\ last' = Last("flush", FALSE, 0, <<>>, 0)
       /\ UNCHANGED <<config, outQueue, executingQueue, configCollectorUrl,
                      localStorage, reqs, nextUid, nextEv, enqLog, accepted,
                      hist, restarts, batchVars>>

\* mutant: the upper status test of line 226 with <= for <
isSuccessLe(status) == status >= 200 /\ status <= 400

\* lines 226 and 235: the branch taken on readyState 4
isSuccess(status) == status >= 200 /\ status < 400

isRejection(status) == status >= 400

Statuses == {0, 200, 400}

\* lines 225-239: xhr.onreadystatechange of request x with readyState 4
XhrReadyState4(x, status, ok) ==
    /\ x.kind = "xhr" /\ x.state = "inflight"
    /\ IF isSuccess(status)
       THEN LET q1 == shiftN(outQueue, x.numberToSend)
                w == save(localStorage, q1, ok)
                r == executeQueue(q1, executingQueue, configCollectorUrl)
            IN /\ outQueue' = r.q
               /\ executingQueue' = r.exec
               /\ reqs' = AddReq(RemoveReq(reqs, x), r.req)
               /\ localStorage' = w.record
               /\ hist' = [hist EXCEPT !.writesOk =
                              @ /\ (useLocalStorage => w.saved),
                                      !.rejected = <<>>]
               /\ last' = LastRun("xhrDone", status, x.carried, 0, r)
       ELSE IF isRejection(status)
       THEN /\ reqs' = RemoveReq(reqs, x)
            /\ executingQueue' = FALSE
            /\ last' = Last("xhrDone", FALSE, status, x.carried, 0)
            /\ hist' = [hist EXCEPT !.rejected =
                              IF hist.track THEN x.carried ELSE <<>>]
            /\ UNCHANGED <<outQueue, localStorage>>
       ELSE /\ reqs' = Settle(reqs, x, [x EXCEPT !.state = "done"])
            /\ last' = Last("xhrDone", FALSE, status, x.carried, 0)
            /\ UNCHANGED <<outQueue, executingQueue, localStorage, hist>>
    /\ accepted' = IF status >= 200 /\ status < 400
                   THEN accepted \cup {x.carried[k] : k \in 1..Len(x.carried)}
                   ELSE accepted
    /\ UNCHANGED <<config, configCollectorUrl, nextUid, nextEv, enqLog,
                   restarts, batchVars>>

XhrDone ==
    \E x \in BagToSet(reqs), status \in Statuses,
       ok \in (IF useLocalStorage /\ lsAccessible THEN BOOLEAN ELSE {FALSE}) :
        XhrReadyState4(x, status, ok)

\* lines 203-206: the 5 second timer of request x fires
xhrTimeout(x) ==
    /\ x.kind = "xhr" /\ x.timer
    /\ reqs' = RemoveReq(reqs, x)
    /\ executingQueue' = FALSE
    /\ last' = Last("xhrTimeout", FALSE, 0,
                    IF x.state = "inflight" THEN x.carried ELSE <<>>, 0)
    /\ UNCHANGED <<config, outQueue, configCollectorUrl, localStorage,
                   nextUid, nextEv, enqLog, accepted, hist, restarts,
                   batchVars>>

XhrTimeout == \E x \in BagToSet(reqs) : xhrTimeout(x)

\* lines 257-263: image.onload of request x
imageOnload(x, ok) ==
    /\ x.kind = "image" /\ x.state = "inflight"
    /\ LET q1 == shiftN(outQueue, 1)
           w == save(localStorage, q1, ok)
           r == executeQueue(q1, executingQueue, configCollectorUrl)
       IN /\ outQueue' = r.q
          /\ executingQueue' = r.exec
          /\ reqs' = AddReq(RemoveReq(reqs, x), r.req)
          /\ localStorage' = w.record
          /\ hist' = [hist EXCEPT !.writesOk =
                         @ /\ (useLocalStorage => w.saved)]
          /\ last' = LastRun("imageOnload", 0, x.carried, 0, r)
    /\ accepted' = accepted \cup {x.carried[k] : k \in 1..Len(x.carried)}
    /\ UNCHANGED <<config, configCollectorUrl, nextUid, nextEv, enqLog,
                   restarts, batchVars>>

ImageOnload ==
    \E x \in BagToSet(reqs),
       ok \in (IF useLocalStorage /\ lsAccessible THEN BOOLEAN ELSE {FALSE}) :
        imageOnload(x, ok)

\* lines 265-267: image.onerror of request x
imageOnerror(x) ==
    /\ x.kind = "image" /\ x.state = "inflight"
    /\ reqs' = RemoveReq(reqs, x)
    /\ executingQueue' = FALSE
    /\ last' = Last("imageOnerror", FALSE, 0, x.carried, 0)
    /\ UNCHANGED <<config, outQueue, configCollectorUrl, localStorage,
                   nextUid, nextEv, enqLog, accepted, hist, restarts,
                   batchVars>>

ImageOnerror == \E x \in BagToSet(reqs) : imageOnerror(x)

\* lines 58-98: the page is loaded again and a fresh OutQueueManager is
\* constructed with the same functionName, namespace and usePost
Construct ==
    /\ restarts < MaxRestarts
    /\ restarts' = restarts + 1
    /\ outQueue' = loadQueue(useLocalStorage, lsAccessible, localStorage)
    /\ executingQueue' = FALSE
    /\ configCollectorUrl' = NoUrl
    /\ reqs' = EmptyBag
    /\ last' = Constructed
    /\ UNCHANGED <<config, localStorage, nextUid, nextEv, enqLog, accepted,
                   hist, batchVars>>

Next ==
    \/ Enqueue
    \/ PublicExecuteQueue
    \/ BufferFlusher
    \/ XhrDone
    \/ XhrTimeout
    \/ ImageOnload
    \/ ImageOnerror

Spec == Init /\ [][Next]_vars

\* the same page, reloaded: persistence enabled and no record left before
InitFresh == Init /\ useLocalStorage /\ lsAccessible /\ localStorage = NoRecord

NextReload == Next \/ Construct

SpecReload == InitFresh /\ [][NextReload]_vars

\* ------------------------- the flush signal of the page, in every mode
InitEmpty == Init /\ localStorage = NoRecord

NextFlush ==
    \/ Enqueue
    \/ PublicExecuteQueue
    \/ FlushSignal
    \/ XhrDone
    \/ XhrTimeout
    \/ ImageOnload
    \/ ImageOnerror

SpecFlush == InitEmpty /\ [][NextFlush]_vars

\* --------------------------------- a queue left in the store by another page
\* values json2.parse can return as the first element of the stored array
\* that are not an entry of the mode: null, a number, a boolean, an entry
\* of the other mode
Malformed(post) ==
    {Entry("null", 0, Undefined, 1), Entry("number", 0, Undefined, 1),
     Entry("boolean", 0, Undefined, 1),
     IF post THEN Entry("string", 0, Undefined, 1)
     ELSE Entry("body", 0, 25000, 1)}

\* a body whose recorded memorySize reaches maxBytes (line 213)
Oversized == Entry("body", 0, DefaultMaxBytes, 1)

LoadedStores(post) ==
    {stringify(<<bad, Valid(post, 2)>>) : bad \in Malformed(post)}
    \cup {stringify(<<Entry("number", 0, Undefined, 1)>>)}
    \cup (IF post THEN {stringify(<<Oversized, Valid(post, 2)>>)} ELSE {})

\* lines 58-98 with useLocalStorage set and a record present under queueName
InitLoaded ==
    /\ usePost \in BOOLEAN
    /\ useLocalStorage = TRUE
    /\ lsAccessible = TRUE
    /\ \E requested \in RequestedBufferSizes :
          bufferSize = clampBufferSize(lsAccessible, useLocalStorage,
                                       usePost, requested)
    /\ maxBytes = DefaultMaxBytes
    /\ maxEvents = MaxEvents
    /\ localStorage \in LoadedStores(usePost)
    /\ outQueue = loadQueue(useLocalStorage, lsAccessible, localStorage)
    /\ executingQueue = FALSE
    /\ configCollectorUrl = NoUrl
    /\ reqs = EmptyBag
    /\ last = Constructed
    /\ nextUid = 3
    /\ nextEv = 1
    /\ enqLog = <<>>
    /\ accepted = {}
    /\ hist = [fresh |-> FALSE, writesOk |-> TRUE,
              track |-> FALSE, rejected |-> <<>>]
    /\ restarts = 0
    /\ batchQ = <<>>
    /\ batchN = NotRun

SpecLoaded == InitLoaded /\ [][Next]_vars

\* ------------------------------------ a page that tracks one more event
\* lines 58-98 with nothing stored under queueName
InitBusy ==
    /\ usePost \in BOOLEAN
    /\ useLocalStorage \in BOOLEAN
    /\ lsAccessible = TRUE
    /\ \E requested \in RequestedBufferSizes :
          bufferSize = clampBufferSize(lsAccessible, useLocalStorage,
                                       usePost, requested)
    /\ maxBytes = DefaultMaxBytes
    /\ maxEvents = MaxEvents + 1
    /\ localStorage = NoRecord
    /\ outQueue = loadQueue(useLocalStorage, lsAccessible, localStorage)
    /\ executingQueue = FALSE
    /\ configCollectorUrl = NoUrl
    /\ reqs = EmptyBag
    /\ last = Constructed
    /\ nextUid = 3
    /\ nextEv = 1
    /\ enqLog = <<>>
    /\ accepted = {}
    /\ hist = [fresh |-> TRUE, writesOk |-> TRUE,
              track |-> FALSE, rejected |-> <<>>]
    /\ restarts = 0
    /\ batchQ = <<>>
    /\ batchN = NotRun

SpecBusy == InitBusy /\ [][Next]_vars

\* --------------------- a page that never calls the public executeQueue
InitGuarded == InitBusy \/ InitLoaded

NextGuarded ==
    \/ Enqueue
    \/ BufferFlusher
    \/ XhrDone
    \/ XhrTimeout
    \/ ImageOnload
    \/ ImageOnerror

SpecGuarded == InitGuarded /\ [][NextGuarded]_vars

\* --------------------------- small events behind a large flush threshold
RetrySizes == {10000}
RetryBufferSizes == {5}

\* lines 58-98 in POST mode with localStorage, nothing stored
InitRetry ==
    /\ usePost = TRUE
    /\ useLocalStorage = TRUE
    /\ lsAccessible = TRUE
    /\ \E requested \in RetryBufferSizes :
          bufferSize = clampBufferSize(lsAccessible, useLocalStorage,
                                       usePost, requested)
    /\ maxBytes = DefaultMaxBytes
    /\ maxEvents = MaxEvents + 1
    /\ localStorage = NoRecord
    /\ outQueue = loadQueue(useLocalStorage, lsAccessible, localStorage)
    /\ executingQueue = FALSE
    /\ configCollectorUrl = NoUrl
    /\ reqs = EmptyBag
    /\ last = Constructed
    /\ nextUid = 3
    /\ nextEv = 1
    /\ enqLog = <<>>
    /\ accepted = {}
    /\ hist = [fresh |-> TRUE, writesOk |-> TRUE,
               track |-> TRUE, rejected |-> <<>>]
    /\ restarts = 0
    /\ batchQ = <<>>
    /\ batchN = NotRun

EnqueueSmall ==
    \E size \in RetrySizes, ok \in BOOLEAN :
        enqueueRequest([id |-> nextEv, size |-> size], ok)

NextRetry ==
    \/ EnqueueSmall
    \/ PublicExecuteQueue
    \/ BufferFlusher
    \/ XhrDone
    \/ XhrTimeout

SpecRetry == InitRetry /\ [][NextRetry]_vars

\* ------------------------------- a collector that accepts every request
\* lines 225-234: readyState 4 with a status the collector gives on success
XhrAccepted ==
    \E x \in BagToSet(reqs),
       ok \in (IF useLocalStorage /\ lsAccessible THEN BOOLEAN ELSE {FALSE}) :
        XhrReadyState4(x, 200, ok)

NextAccepting ==
    \/ Enqueue
    \/ PublicExecuteQueue
    \/ BufferFlusher
    \/ XhrAccepted
    \/ ImageOnload

\* the browser delivers the response of every request it has sent
SpecAccepting ==
    /\ InitBusy
    /\ [][NextAccepting]_vars
    /\ WF_vars(XhrAccepted)
    /\ WF_vars(ImageOnload)

\* ------------------------------------------------ batch selection, alone
BatchSizes == {0, 10000, 15000, 25000}
Budgets == {0, 1, 25000, 40000}

RECURSIVE SeqsUpTo(_)
SeqsUpTo(n) ==
    IF n = 0 THEN {<<>>}
    ELSE LET S == SeqsUpTo(n - 1) IN
         S \cup {Append(q, Entry("body", 0, size, 0)) :
                     q \in {x \in S : Len(x) = n - 1}, size \in BatchSizes}

InitBatch ==
    /\ usePost = TRUE
    /\ useLocalStorage = FALSE
    /\ lsAccessible = TRUE
    /\ bufferSize = 1
    /\ maxBytes \in Budgets
    /\ maxEvents = MaxEvents
    /\ localStorage = NoRecord
    /\ outQueue = <<>>
    /\ executingQueue = FALSE
    /\ configCollectorUrl = NoUrl
    /\ reqs = EmptyBag
    /\ last = Constructed
    /\ nextUid = 3
    /\ nextEv = 1
    /\ enqLog = <<>>
    /\ accepted = {}
    /\ hist = [fresh |-> TRUE, writesOk |-> TRUE,
              track |-> FALSE, rejected |-> <<>>]
    /\ restarts = 0
    /\ batchQ \in SeqsUpTo(MaxLen)
    /\ batchN = NotRun

\* line 223 applied to the drawn queue
SelectBatch ==
    /\ batchN = NotRun
    /\ batchN' = chooseHowManyToExecute(batchQ)
    /\ UNCHANGED <<config, outQueue, executingQueue, configCollectorUrl,
                   localStorage, reqs, last, nextUid, nextEv, enqLog,
                   accepted, hist, restarts, batchQ>>

NextBatch == SelectBatch

SpecBatch == InitBatch /\ [][NextBatch]_vars

RECURSIVE PrefixSum(_, _)
PrefixSum(q, k) == IF k = 0 THEN 0 ELSE PrefixSum(q, k - 1) + q[k].memorySize

\* C10: chooseHowManyToExecute returns the largest k such that the sizes of
\* the first k entries sum to strictly less than maxBytes: every prefix up
\* to the result stays under the budget and every longer one reaches it
\* (sizes >= 0).
C10_LargestPrefixUnderBudget ==
    batchN # NotRun =>
        /\ batchN \in 0..Len(batchQ)
        /\ \A k \in 1..batchN : PrefixSum(batchQ, k) < maxBytes
        /\ \A k \in (batchN + 1)..Len(batchQ) :
               PrefixSum(batchQ, k) >= maxBytes

\* the example of the spec: five entries of 10000 under a budget of 25000
\* give 2
C10_Witness ==
    /\ maxBytes = 25000
    /\ Len(batchQ) = 5
    /\ \A i \in 1..5 : batchQ[i].memorySize = 10000
    /\ batchN = 2

\* --------------------------------------------------------------- formulas
TypeOK ==
    /\ executingQueue \in BOOLEAN
    /\ BagCardinality(reqs) <= MaxReqs

Range(f) == {f[i] : i \in DOMAIN f}

\* entries of the queue that the step takes out of it
RemovedByStep == {outQueue[i] : i \in {j \in 1..Len(outQueue) :
                                          outQueue[j].uid \notin Uids(outQueue')}}

\* a recognized Entry of the configured transport mode
IsEntry(e) == e.kind = (IF usePost THEN "body" ELSE "string")

\* the encoded form of an event, without the history field
encode(ev) ==
    IF usePost
    THEN [kind |-> "body", data |-> ev.id, memorySize |-> ev.size]
    ELSE [kind |-> "string", data |-> ev.id, memorySize |-> Undefined]

AcceptedStep ==
    \/ last'.op = "xhrDone" /\ last'.status >= 200 /\ last'.status < 400
    \/ last'.op = "imageOnload"

FailedStep ==
    \/ last'.op = "xhrDone" /\ last'.status >= 400
    \/ last'.op = "xhrTimeout"
    \/ last'.op = "imageOnerror"

\* C1: at most one network send of the queue instance is in flight at any
\* time, whatever the interleaving of enqueueRequest, the public
\* executeQueue, the buffer flusher and the transport outcomes.
C1_AtMostOneSendInFlight == NumInFlight <= 1

\* C2: an entry leaves the queue only from the head, and only when a send
\* that carried that very entry has been accepted by the transport.
C2_RemovedOnlyAfterAccepted ==
    [][ /\ \A i \in 1..Len(outQueue), j \in 1..Len(outQueue) :
              (outQueue[i] \in RemovedByStep /\ j < i)
                  => outQueue[j] \in RemovedByStep
        /\ \A e \in RemovedByStep : IsEntry(e) => e.uid \in accepted' ]_vars

\* C3: an accepted enqueue appends exactly one entry at the tail: the queue
\* after the call is the queue before it followed by the encoded entry.
C3_EnqueueAppendsOne ==
    [][ (last'.op = "enqueue" /\ ~last'.warned /\ scrub(outQueue) = outQueue
         /\ nextEv' = nextEv + 1)
        => /\ Len(outQueue') = Len(outQueue) + 1
           /\ StripUid(outQueue') =
                 Append(StripUid(outQueue), encode(enqLog'[Len(enqLog')])) ]_vars

\* C4: after N events were enqueued with persistence enabled and every store
\* write succeeding, and before any send was accepted, a fresh instance of
\* the same identity loads exactly those N entries in enqueue order.
C4_DurabilityRoundTrip ==
    (last.op = "construct" /\ restarts > 0 /\ hist.fresh /\ hist.writesOk
     /\ accepted = {})
    => StripUid(outQueue) = [i \in 1..Len(enqLog) |-> encode(enqLog[i])]

\* C5: the public executeQueue called while the engine is Draining is a
\* no-op: no send, no timer, and the queue, the store and the flag unchanged.
C5_DrainNowNoOpWhileDraining ==
    [][ (last'.op = "executeQueue" /\ executingQueue)
        => UNCHANGED <<outQueue, localStorage, executingQueue, reqs>> ]_vars

\* C6: when a send is accepted, exactly the entries that send carried are
\* removed from the queue head (whatever was enqueued meanwhile), the queue
\* is persisted and another drain step is attempted.
C6_AcceptedRemovesExactlyCarried ==
    [][ AcceptedStep
        => LET C == Range(last'.carried)
               rest == SelectSeq(outQueue, LAMBDA e : e.uid \notin C)
           IN /\ C \subseteq {e.uid : e \in RemovedByStep}
              /\ \A e \in RemovedByStep :
                    e.uid \in C \/ typeOf(e) \notin {"string", "object"}
              /\ (useLocalStorage /\ hist'.writesOk)
                    => loadQueue(TRUE, TRUE, localStorage') = rest
              /\ IF outQueue' = <<>> THEN ~executingQueue'
                 ELSE executingQueue'
                      /\ BagCardinality(reqs') = BagCardinality(reqs) ]_vars

\* C7: when a send is rejected (status >= 400), times out or fails (beacon
\* error), the queue and the stored record stay as they were, the engine
\* becomes Idle and no other send is issued.
C7_FailureLeavesQueueAndGoesIdle ==
    [][ FailedStep
        => /\ outQueue' = outQueue
           /\ localStorage' = localStorage
           /\ executingQueue' = FALSE
           /\ \E x \in BagToSet(reqs) : reqs' = RemoveReq(reqs, x) ]_vars

C7_Witness ==
    /\ last.op \in {"xhrDone", "xhrTimeout", "imageOnerror"}
    /\ last.op = "xhrDone" => last.status >= 400
    /\ last.carried # <<>>
    /\ Len(outQueue) >= 2
    /\ ~executingQueue

\* C8: in Batch mode an enqueue whose encoded size is >= maxBytes emits a
\* warning and changes nothing else: queue, store, collector URL and
\* draining flag unchanged, no drain started.
C8_CapacityRejection ==
    [][ (last'.op = "enqueue" /\ usePost /\ last'.size >= DefaultMaxBytes)
        => /\ last'.warned
           /\ UNCHANGED <<outQueue, localStorage, configCollectorUrl,
                          executingQueue, reqs, nextUid>> ]_vars

C8_Witness ==
    /\ last.op = "enqueue" /\ last.warned /\ last.size >= DefaultMaxBytes
    /\ usePost
    /\ outQueue # <<>>
    /\ ~executingQueue

C11_CorruptedHeadDiscarded ==
    /\ \A x \in InFlight : \A e \in Range(outQueue) :
          e.uid \in Range(x.carried) => IsEntry(e)
    /\ (executingQueue /\ outQueue # <<>>) => IsEntry(outQueue[1])

\* a drain called from outside: the public executeQueue, or the flusher
\* where the constructor registered it
DrainCall ==
    \/ last'.op = "executeQueue"
    \/ last'.op = "flush" /\ usePost /\ bufferSize > 1

\* C12 as stated: a drain attempted with no collector URL and a non-empty
\* queue raises the configuration error, issues no send, leaves the engine
\* Idle and leaves the queue as it was.
C12_NoUrlQueueIntact ==
    [][ (DrainCall /\ configCollectorUrl = NoUrl /\ outQueue # <<>>)
        => /\ last'.threw = "config"
           /\ reqs' = reqs
           /\ ~executingQueue'
           /\ outQueue' = outQueue ]_vars

\* C12 amended: the leading entries that are neither strings nor objects
\* are removed from the in-memory queue before the URL test (the store is
\* not rewritten); if entries remain the configuration error is raised, no
\* send is issued, the engine stays Idle and the remaining entries are kept;
\* if none remain the drain returns without an error.
C12_NoUrlConfigError ==
    [][ (DrainCall /\ configCollectorUrl = NoUrl /\ outQueue # <<>>)
        => /\ last'.threw = (IF scrub(outQueue) # <<>> THEN "config" ELSE "no")
           /\ reqs' = reqs
           /\ ~executingQueue'
           /\ outQueue' = scrub(outQueue)
           /\ localStorage' = localStorage ]_vars

\* the error was raised after the scrub shortened the loaded queue
C12_Witness ==
    /\ last.op \in {"executeQueue", "flush"}
    /\ last.threw = "config"
    /\ configCollectorUrl = NoUrl
    /\ outQueue # <<>>
    /\ Len(loadQueue(TRUE, TRUE, localStorage)) > Len(outQueue)
    /\ ~executingQueue
    /\ reqs = EmptyBag

\* C13: an accepted enqueue starts a drain if and only if the engine is not
\* Draining and (the write to the store failed or the queue length after
\* the append is at least bufferSize); an enqueue made while the engine is
\* Draining only appends and persists: no request is created, the flag and
\* the entries already queued stay.
C13_EnqueueTrigger ==
    [][ (last'.op = "enqueue" /\ ~last'.warned)
        => LET saved == localStorage' # localStorage
               len == Len(outQueue) + (nextUid' - nextUid)
               started == BagCardinality(reqs') = BagCardinality(reqs) + 1
           IN /\ started <=> (~executingQueue
                              /\ (~saved \/ len >= bufferSize))
              /\ started => executingQueue'
              /\ ~started => reqs' = reqs
              /\ executingQueue
                    => /\ ~started
                       /\ executingQueue'
                       /\ Len(outQueue') = len
                       /\ SubSeq(outQueue', 1, Len(outQueue)) = outQueue
                       /\ (useLocalStorage /\ saved)
                             => localStorage' = stringify(outQueue') ]_vars

\* an enqueue that was saved and left the queue under bufferSize: no drain
C13_Witness ==
    /\ last.op = "enqueue" /\ ~last.warned
    /\ outQueue # <<>>
    /\ Len(outQueue) < bufferSize
    /\ localStorage = stringify(outQueue)
    /\ ~executingQueue
    /\ reqs = EmptyBag

\* the queue the stored record decodes to
Stored == loadQueue(TRUE, TRUE, localStorage)

Persisting == useLocalStorage /\ lsAccessible /\ hist.writesOk

\* C14 as stated: with persistence enabled and every write succeeding, the
\* stored record decodes to exactly the in-memory queue after every
\* operation, the scrub of malformed leading entries included.
C14_StoreEqualsQueue == Persisting => Stored = outQueue

\* C14 amended: the append of an enqueue and the removal after an accepted
\* send are persisted, the scrub is not: the stored record decodes to the
\* in-memory queue preceded by the leading entries the scrub has removed
\* since the last write (values that are neither strings nor objects).
C14_StoreEqualsQueueUpToScrub ==
    Persisting
    => \E k \in 0..Len(Stored) :
          /\ shiftN(Stored, k) = outQueue
          /\ \A i \in 1..k : typeOf(Stored[i]) \notin {"string", "object"}

\* an enqueue was written to the store, then the drain scrubbed the head
C14_Witness ==
    /\ Persisting
    /\ nextEv > 1
    /\ executingQueue
    /\ Len(outQueue) >= 3
    /\ Len(Stored) = Len(outQueue) + 1

\* a step that issued a send or armed a timer: one request object more
DrainStarted ==
    /\ BagCardinality(reqs') = BagCardinality(reqs) + 1
    /\ executingQueue'

\* C15 as stated: a flush signal that arrives while the engine is not
\* Draining starts a drain whatever the queue length (given entries to send
\* and a collector URL); one that arrives while the engine is Draining
\* changes nothing.
C15_FlushStartsDrain ==
    [][ last'.op = "flush"
        => IF executingQueue
           THEN UNCHANGED <<outQueue, executingQueue, reqs, localStorage>>
           ELSE (scrub(outQueue) # <<>> /\ configCollectorUrl # NoUrl)
                   => DrainStarted ]_vars

\* C15 amended: the signal reaches the queue only through the flusher that
\* the constructor registers in POST mode with bufferSize > 1. There, a
\* signal that arrives while the engine is not Draining starts a drain
\* whatever the queue length, and one that arrives while it is Draining
\* changes nothing. In beacon mode or with bufferSize 1 the signal changes
\* nothing.
C15_RegisteredFlushStartsDrain ==
    [][ last'.op = "flush"
        => IF executingQueue \/ ~(usePost /\ bufferSize > 1)
           THEN UNCHANGED <<outQueue, executingQueue, reqs, localStorage>>
           ELSE /\ (scrub(outQueue) # <<>> /\ configCollectorUrl # NoUrl)
                      => DrainStarted /\ outQueue' = scrub(outQueue)
                /\ scrub(outQueue) = <<>>
                      => ~executingQueue' /\ reqs' = reqs ]_vars

\* the flusher started a drain of a queue shorter than bufferSize
C15_Witness ==
    /\ last.op = "flush"
    /\ executingQueue
    /\ outQueue # <<>>
    /\ Len(outQueue) < bufferSize
    /\ NumInFlight = 1
    /\ Persisting

\* C16: in POST mode, when chooseHowManyToExecute gives 0 for the non-empty
\* queue (the memorySize of the head alone reaches maxBytes), a drain step
\* issues no send, removes nothing and leaves the engine Idle: in every
\* state with such a queue no send is in flight, the head is still queued
\* and executingQueue is false.
C16_EmptySelectionReturnsIdle ==
    (usePost /\ outQueue # <<>> /\ chooseHowManyToExecute(outQueue) = 0)
    => /\ NumInFlight = 0
       /\ ~executingQueue

\* C17: once a drain has started on a queue of entries admitted by
\* enqueueRequest, with every send accepted and finitely many further
\* enqueues, the engine keeps sending without any other trigger until the
\* queue is empty, and is then Idle with nothing outstanding.
C17_DrainToEmpty ==
    executingQueue ~> (outQueue = <<>> /\ ~executingQueue /\ reqs = EmptyBag)

\* every entry pushed by the enqueues has been carried by an accepted send
C17_Witness ==
    /\ outQueue = <<>>
    /\ ~executingQueue
    /\ reqs = EmptyBag
    /\ nextEv > maxEvents
    /\ accepted = 3..(nextUid - 1)
    /\ last.op \in {"xhrDone", "imageOnload"}

\* C18: starting from the empty queue with nothing but enqueues and drains,
\* chooseHowManyToExecute gives at least 1 whenever the queue is not empty,
\* every POST request carries at least one entry, and every accepted send
\* leaves the queue strictly shorter.
C18_BatcherProgress ==
    /\ [](hist.fresh
          => /\ (usePost /\ outQueue # <<>>)
                   => chooseHowManyToExecute(outQueue) >= 1
             /\ \A x \in BagToSet(reqs) :
                   x.kind = "xhr" => (x.numberToSend >= 1 /\ x.carried # <<>>))
    /\ [][ (hist.fresh /\ usePost /\ AcceptedStep)
           => Len(outQueue') < Len(outQueue) ]_vars

\* C20: when drains are started by enqueueRequest and the flusher only,
\* executingQueue is true in every state in which a send is outstanding or
\* a timer is pending (every request object kept in reqs is one or the
\* other), and at most one send is outstanding.
C20_FlagCoversOutstanding ==
    /\ (\E x \in BagToSet(reqs) : x.state = "inflight" \/ x.timer)
          => executingQueue
    /\ NumInFlight <= 1
    /\ BagCardinality(reqs) <= 1

\* a status-0 completion left the timer pending and the flag true
C20_Witness ==
    /\ last.op = "xhrDone" /\ last.status = 0
    /\ executingQueue
    /\ NumInFlight = 0
    /\ \E x \in BagToSet(reqs) : x.state = "done" /\ x.timer
    /\ outQueue # <<>>

\* the sends issued by the step
Issued ==
    {x \in BagToSet(reqs') :
        x.state = "inflight" /\ CopiesIn(x, reqs') > CopiesIn(x, reqs)}

\* C19 as stated: after a POST send was rejected, the send issued next
\* carries exactly the entries of the rejected batch, in the same order,
\* whatever was enqueued in between.
C19_RetryVerbatim ==
    [][ hist.rejected # <<>>
        => \A x \in Issued : x.carried = hist.rejected ]_vars

\* C19 amended: the send issued next starts with the entries of the
\* rejected batch that are still queued, in the same order (all of them,
\* unless a send running beside the rejected one has been accepted);
\* entries enqueued since the rejection follow them in the same request as
\* far as maxBytes allows.
C19_RetryStartsWithRejected ==
    [][ hist.rejected # <<>>
        => \A x \in Issued :
              LET rest == SelectSeq(hist.rejected,
                                    LAMBDA u : u \in Uids(outQueue'))
              IN /\ Len(x.carried) >= Len(rest)
                 /\ SubSeq(x.carried, 1, Len(rest)) = rest
                 /\ \A k \in 1..Len(x.carried) :
                       x.carried[k] = outQueue'[k].uid ]_vars

\* the flusher retried a rejected batch after an enqueue that did not drain
C19_Witness ==
    /\ last.op = "flush"
    /\ hist.rejected # <<>>
    /\ Persisting
    /\ BagCardinality(reqs) = 1
    /\ \E x \in InFlight :
          /\ Len(x.carried) > Len(hist.rejected)
          /\ SubSeq(x.carried, 1, Len(hist.rejected)) = hist.rejected

====
